---- MODULE Spec2Model ----
(***************************************************************************)
(* Model of j-practice (src/app.py): the WindowedApplication/Page page     *)
(* switcher, the QuestionManager question bank, App._load_questions, and   *)
(* the question cycle of the commented App draft at the end of the file.   *)
(*                                                                         *)
(* Spec      the live classes of app.py, driven through their methods.     *)
(* SpecRows  the row loop of QuestionManager.load (lines 144-162) applied  *)
(*           to row sequences drawn from SampleRows.                       *)
(* SpecDraft the button handlers of the commented App draft.               *)
(***************************************************************************)
EXTENDS Integers, Sequences, FiniteSets, TLC

\* ---------------------------------------------------------------- bounds
MaxRows == 2
MaxBank == 2
MaxPathLen == 2
MaxFrames == 3
MaxConfigLen == 3
MaxLog == 3

\* ------------------------------------------------------- Python values
\* A Python value held by a Question field: a str, a float, a list of str,
\* or the class object `list` (the dataclass default of `tags`).
Str(s) == [k |-> "str", s |-> s, n |-> 0, l |-> <<>>]
Num(n) == [k |-> "float", s |-> "", n |-> n, l |-> <<>>]
List(l) == [k |-> "list", s |-> "", n |-> 0, l |-> l]
ListClass == [k |-> "class", s |-> "list", n |-> 0, l |-> <<>>]

\* float(s) for the cell texts used here; any other text raises ValueError.
FloatTable == [s \in {"1", "2", "3"} |-> CASE s = "1" -> 1 [] s = "2" -> 2 [] s = "3" -> 3]
IsFloat(s) == s \in DOMAIN FloatTable
Float(s) == FloatTable[s]

\* Python slice seq[lo:hi] (0-based, hi exclusive, clipped to the length).
PySlice(seq, lo, hi) ==
  LET top == IF hi < Len(seq) THEN hi ELSE Len(seq)
  IN  IF lo >= top THEN <<>> ELSE SubSeq(seq, lo + 1, top)

MapSeq(F(_), seq) == [i \in 1..Len(seq) |-> F(seq[i])]

\* Question(*args): the dataclass constructor called positionally with 6 or
\* 7 arguments; the 7th field `tags` defaults to the class `list`.
Question(args) ==
  [identifer |-> args[1], question |-> args[2], answer |-> args[3],
   correct_value |-> args[4], incorrect_value |-> args[5],
   skip_value |-> args[6],
   tags |-> IF Len(args) >= 7 THEN args[7] ELSE ListClass]

\* ------------------------------------------------ QuestionManager.load
\* State of one run of the row loop.  q_values is the loop's local variable,
\* unbound until the first successful float conversion.
LoadStart(bank) ==
  [bank |-> bank, calls |-> <<>>, q_values |-> <<>>, bound |-> FALSE,
   raised |-> "none"]

Raise(st, e) == [st EXCEPT !.raised = e]
OnBadLine(st, row) == [st EXCEPT !.calls = Append(@, row)]

\* Lines 145-149: the length check.
CheckLength(st, row, cb) ==
  IF Len(row) < 6
  THEN IF ~cb THEN Raise(st, "IndexError") ELSE OnBadLine(st, row)
  ELSE st

\* Lines 152-158: the float conversion of row[3:6].
ParseValues(st, row, cb) ==
  LET cells == PySlice(row, 3, 6)
  IN  IF \A i \in 1..Len(cells) : IsFloat(cells[i])
      THEN [st EXCEPT !.q_values = MapSeq(Float, cells), !.bound = TRUE]
      ELSE IF ~cb THEN Raise(st, "ValueError") ELSE OnBadLine(st, row)

\* Lines 160-162: build the Question and append it to the bank.
AppendQuestion(st, row) ==
  IF ~st.bound THEN Raise(st, "UnboundLocalError")
  ELSE LET tags == PySlice(row, 6, Len(row) + 6)
           args == MapSeq(Str, PySlice(row, 0, 3)) \o MapSeq(Num, st.q_values)
                   \o <<List(tags)>>
       IN  IF Len(args) < 6 THEN Raise(st, "TypeError")
           ELSE [st EXCEPT !.bank = Append(@, Question(args))]

\* One iteration of the loop body, lines 145-162.
ProcessRow(st, row, cb) ==
  LET s1 == CheckLength(st, row, cb)
      s2 == IF s1.raised = "none" THEN ParseValues(s1, row, cb) ELSE s1
  IN  IF s2.raised = "none" THEN AppendQuestion(s2, row) ELSE s2

\* `for row in reader`, line 144: stops at the first exception.
RECURSIVE LoadRows(_, _, _)
LoadRows(st, rows, cb) ==
  IF rows = <<>> \/ st.raised # "none" THEN st
  ELSE LoadRows(ProcessRow(st, Head(rows), cb), Tail(rows), cb)

\* csv.reader(file), line 143: the reader is given the path string, so each
\* character of the path is one line.  A "," alone on a line is one
\* delimiter between two empty fields; any other character of Chars is a
\* one-field row.
Chars == {"q", "x", ","}
CsvReader(file) ==
  [i \in 1..Len(file) |-> IF file[i] = "," THEN <<"", "">> ELSE <<file[i]>>]

\* os.path.isfile / open(): the files that exist.  Every other path over
\* Chars is missing.
ExistingFiles == {<<"q">>, <<",", "q">>}
IsFile(path) == path \in ExistingFiles

\* What each existing file holds, as the rows a csv reader would yield from
\* its lines.  load opens the file (line 142) and never reads from it.
ValidRow == <<"a", "b", "c", "1", "2", "3">>
TaggedRow == <<"d", "e", "f", "2", "2", "1", "t", "u">>
FileRows(path) == IF path = <<"q">> THEN <<ValidRow>> ELSE <<TaggedRow, ValidRow>>

RECURSIVE SeqsUpTo(_, _)
SeqsUpTo(S, n) ==
  IF n = 0 THEN {<<>>}
  ELSE LET shorter == SeqsUpTo(S, n - 1)
       IN  shorter \cup {Append(s, x) : s \in shorter, x \in S}

Paths == SeqsUpTo(Chars, MaxPathLen) \ {<<>>}

\* ------------------------------------------------------------ inputs
\* Rows handed to the row loop in SpecRows.
SampleRows ==
  { TaggedRow,
    <<"g", "h", "i", "1", "z", "3", "t">>,
    <<"a", "b", "c", "1", "2">>,
    <<"a", "b", "c", "z", "2">>,
    <<"a", "b">> }

\* Questions handed to the constructor as an initial bank.
Q1 == Question(<<Str("1"), Str("clue1"), Str("ans1"), Num(1), Num(2), Num(3),
                 List(<<"History">>)>>)
Q2 == Question(<<Str("2"), Str("clue2"), Str("ans2"), Num(2), Num(1), Num(3),
                 List(<<"Science", "History">>)>>)
SampleBanks == {<<>>, <<Q1>>, <<Q1, Q2>>}

PageClasses == {"PageA", "PageB"}
Managers == {1, 2}

\* ------------------------------------------------------------- state
VARIABLES
  frame,            \* WindowedApplication._frame: None or the shown page
  alive,            \* ids of the page frames not yet destroyed
  created,          \* number of page frames constructed so far
  lists,            \* the heap of question lists; lists[0] is the default
                    \* argument `[]` of QuestionManager.__init__
  mgr,              \* the QuestionManager instances
  ret,              \* the last call made and what it returned or raised
  questions,        \* draft App.questions
  active_question,  \* draft App.active_question (index into questions)
  left_b,           \* draft App.left_b
  right_b,          \* draft App.right_b
  category_l,       \* draft App.category_l text
  value_l,          \* draft App.value_l text
  question_l,       \* draft App.question_l text
  results,          \* rows written to the draft's performance file
  trace,            \* handlers run for the presented question, and the
                    \* length of the log when it was presented
  cycle,            \* handlers run for the question presented before this
                    \* one, and the number of rows logged for it
  refill            \* draws since the claimed queue was last empty

windowVars == <<frame, alive, created>>
managerVars == <<lists, mgr>>
draftVars == <<questions, active_question, left_b, right_b, category_l,
               value_l, question_l, results, trace, cycle, refill>>
vars == <<frame, alive, created, lists, mgr, ret, questions, active_question,
          left_b, right_b, category_l, value_l, question_l, results, trace,
          cycle, refill>>

None == [id |-> 0, cls |-> "None"]
NoManager == [made |-> FALSE, default |-> FALSE, _questions |-> 0, _queue |-> <<>>]

NoRet ==
  [op |-> "none", m |-> 0, file |-> <<>>, cb |-> FALSE, rows |-> <<>>,
   calls |-> <<>>, before |-> <<>>, err |-> "none", val |-> <<>>,
   tag |-> <<>>, loaded |-> <<>>, cls |-> "None"]

\* The bank of manager m: the list object its _questions refers to.
Bank(m) == lists[mgr[m]._questions]

\* ---------------------------------------- WindowedApplication and Page
\* WindowedApplication.show_page, lines 34-37.
ShowPage(page_class) ==
  /\ created < MaxFrames
  /\ LET kept == IF frame # None THEN alive \ {frame.id} ELSE alive
         new == [id |-> created + 1, cls |-> page_class]
     IN  /\ frame' = new
         /\ alive' = kept \cup {new.id}
         /\ created' = created + 1
  /\ ret' = [NoRet EXCEPT !.op = "show_page", !.cls = page_class]
  /\ UNCHANGED <<managerVars, draftVars>>

\* Page.show_page, line 55: the body names `page_name`, which is neither a
\* parameter nor a module global, so the call raises NameError before the
\* master is reached.
PageShowPage(page_class) ==
  /\ frame # None
  /\ ret' = [NoRet EXCEPT !.op = "Page.show_page", !.cls = page_class,
                          !.err = "NameError"]
  /\ UNCHANGED <<windowVars, managerVars, draftVars>>

\* ---------------------------------------------------- QuestionManager
\* QuestionManager.__init__, lines 122-124.  With no `questions` argument
\* the instance keeps the one default list object; the `queue` argument is
\* ignored and _queue is a new empty list.
Construct(m, useDefault, bank, queue) ==
  /\ ~mgr[m].made
  /\ IF useDefault
     THEN /\ mgr' = [mgr EXCEPT ![m] = [made |-> TRUE, default |-> TRUE,
                                        _questions |-> 0, _queue |-> <<>>]]
          /\ lists' = lists
     ELSE /\ mgr' = [mgr EXCEPT ![m] = [made |-> TRUE, default |-> FALSE,
                                        _questions |-> m, _queue |-> <<>>]]
          /\ lists' = [lists EXCEPT ![m] = bank]
  /\ ret' = [NoRet EXCEPT !.op = "__init__", !.m = m, !.cb = useDefault]
  /\ UNCHANGED <<windowVars, draftVars>>

\* The effect of a finished run of the row loop on manager m.
FinishLoad(m, file, rows, cb, st) ==
  /\ lists' = [lists EXCEPT ![mgr[m]._questions] = st.bank]
  /\ ret' = [NoRet EXCEPT !.op = "load", !.m = m, !.file = file, !.cb = cb,
                          !.rows = rows, !.calls = st.calls,
                          !.before = Bank(m), !.err = st.raised]
  /\ UNCHANGED <<mgr, windowVars, draftVars>>

\* QuestionManager.load, lines 142-162.
Load(m, file, cb) ==
  /\ mgr[m].made
  /\ IF ~IsFile(file)
     THEN /\ ret' = [NoRet EXCEPT !.op = "load", !.m = m, !.file = file,
                                  !.cb = cb, !.before = Bank(m),
                                  !.err = "FileNotFoundError"]
          /\ UNCHANGED <<managerVars, windowVars, draftVars>>
     ELSE LET rows == CsvReader(file)
          IN  FinishLoad(m, file, rows, cb, LoadRows(LoadStart(Bank(m)), rows, cb))

\* The row loop of load, lines 144-162, run on a given row sequence.
LoadFromRows(m, rows, cb) ==
  /\ mgr[m].made
  /\ Len(Bank(m)) + Len(rows) <= MaxBank
  /\ FinishLoad(m, <<>>, rows, cb, LoadRows(LoadStart(Bank(m)), rows, cb))

\* QuestionManager.random_question, line 170: random.choice raises
\* IndexError on an empty sequence.
RandomQuestion(m) ==
  /\ mgr[m].made
  /\ IF Bank(m) = <<>>
     THEN ret' = [NoRet EXCEPT !.op = "random_question", !.m = m,
                               !.before = Bank(m), !.err = "IndexError"]
     ELSE \E i \in 1..Len(Bank(m)) :
            ret' = [NoRet EXCEPT !.op = "random_question", !.m = m,
                                 !.before = Bank(m), !.val = <<Bank(m)[i]>>]
  /\ UNCHANGED <<managerVars, windowVars, draftVars>>

\* QuestionManager.random_tag, lines 186-190.  In both branches the first
\* iterable of the comprehension is `q.tags`, evaluated before `q` is bound
\* by the second `for`, so the call raises NameError whatever the bank is.
RandomTag(m, ignore_frequency) ==
  /\ mgr[m].made
  /\ ret' = [NoRet EXCEPT !.op = "random_tag", !.m = m, !.cb = ignore_frequency,
                          !.before = Bank(m), !.err = "NameError"]
  /\ UNCHANGED <<managerVars, windowVars, draftVars>>

\* ------------------------------------------------ App._load_questions
\* str.split(','), line 225.
RECURSIVE Split(_)
Split(s) ==
  IF \A i \in 1..Len(s) : s[i] # "," THEN <<s>>
  ELSE LET k == CHOOSE i \in 1..Len(s) :
                  s[i] = "," /\ \A j \in 1..(i - 1) : s[j] # ","
       IN  <<SubSeq(s, 1, k - 1)>> \o Split(SubSeq(s, k + 1, Len(s)))

ConfigValues == SeqsUpTo(Chars, MaxConfigLen) \ {<<>>}

\* App._load_questions, lines 211-230.  Line 214 reads self.settings, but
\* App.__init__ (line 201) stores the parser in self._settings and nothing
\* defines `settings`: the lookup raises AttributeError, which the handler
\* of line 215 (KeyError, ValueError) does not catch.  No path is reached.
LoadQuestions(files) ==
  /\ ret' = [NoRet EXCEPT !.op = "_load_questions", !.file = files,
                          !.err = "AttributeError", !.loaded = <<>>]
  /\ UNCHANGED <<windowVars, managerVars, draftVars>>

\* ------------------------------------- the commented App draft (238-400)
\* A draft question is the list [round, category, value, clue, answer]
\* built by the draft's _load_questions (lines 287-289).
DQ(r, c, v, clue, a) ==
  [round |-> r, category |-> c, value |-> v, clue |-> clue, answer |-> a]
D1 == DQ("J", "History", 100, "clue1", "ans1")
D2 == DQ("J", "History", 200, "clue2", "ans2")
D3 == DQ("DJ", "Science", 50, "clue3", "ans3")
SampleQuestions == {<<D2, D1, D3>>, <<D3, D1>>}

\* str(value) and the text the csv writer emits for an int cell.
IntText == [v \in {50, 100, 200} |->
              CASE v = 50 -> "50" [] v = 100 -> "100" [] v = 200 -> "200"]
ToStr(v) == IntText[v]

\* Rows already in the performance file when it is opened in 'a+' mode.
OldRow == <<"J", "Old", "10", "clue0", "ans0", "Correct">>
SampleLogs == {<<>>, <<OldRow>>}

NoButton == [text |-> "", command |-> "", state |-> "normal"]

\* The written form of `question + [correct]`, line 383.
RowOf(question, correct) ==
  <<question.round, question.category, ToStr(question.value), question.clue,
    question.answer, correct>>

Write_truncating(log, question, correct) == <<RowOf(question, correct)>>

\* App._write, lines 382-383: one writerow on the file opened for append.
Write(log, question, correct) == Append(log, RowOf(question, correct))

\* App._show_answer, line 362.
ShowAnswer == question_l' = questions[active_question].answer

\* The draws-since-refill history after drawing question i: a new run starts
\* once the run holds as many draws as the category of its first draw has
\* questions.
CategorySize(c) == Cardinality({i \in 1..Len(questions) : questions[i].category = c})
Drawn(i) ==
  IF refill = <<>> \/ Len(refill) >= CategorySize(questions[refill[1]].category)
  THEN <<i>> ELSE Append(refill, i)

\* App._next_question, lines 342-350, run after the events `done` of the
\* question it replaces.
NextQuestionBody(done) ==
  \E i \in 1..Len(questions) :
    /\ active_question' = i
    /\ category_l' = questions[i].category
    /\ value_l' = <<"$", ToStr(questions[i].value)>>
    /\ question_l' = questions[i].clue
    /\ left_b' = [text |-> "Buzz In", command |-> "_answer", state |-> "active"]
    /\ right_b' = [right_b EXCEPT !.text = "Skip/No Answer",
                                  !.command = "_skip_question"]
    /\ cycle' = [events |-> done, rows |-> Len(results') - trace.start]
    /\ trace' = [events |-> <<>>, start |-> Len(results')]
    /\ refill' = Drawn(i)

\* A button invokes its command when pressed unless it is disabled.
Pressable(b, command) == b.command = command /\ b.state # "disabled"

\* App._answer, lines 353-358 (left button "Buzz In").
Answer ==
  /\ Pressable(left_b, "_answer")
  /\ left_b' = [left_b EXCEPT !.text = "Correct", !.command = "_correct_answer"]
  /\ right_b' = [right_b EXCEPT !.text = "Incorrect",
                                !.command = "_incorrect_answer"]
  /\ ShowAnswer
  /\ trace' = [trace EXCEPT !.events = Append(@, "_answer")]
  /\ UNCHANGED <<questions, active_question, category_l, value_l, results,
                 cycle, refill>>
  /\ UNCHANGED <<windowVars, managerVars, ret>>

SkipLeft_stillActive(b) == b

\* The left button after a skip, line 368.
SkipLeft(b) == [b EXCEPT !.state = "disabled"]

\* App._skip_question, lines 365-369 (right button "Skip/No Answer").
SkipQuestion ==
  /\ Pressable(right_b, "_skip_question")
  /\ Len(results) < MaxLog
  /\ results' = Write(results, questions[active_question], "Skip")
  /\ ShowAnswer
  /\ left_b' = SkipLeft(left_b)
  /\ right_b' = [right_b EXCEPT !.text = "Continue", !.command = "_next_question"]
  /\ trace' = [trace EXCEPT !.events = Append(@, "_skip_question")]
  /\ UNCHANGED <<questions, active_question, category_l, value_l, cycle, refill>>
  /\ UNCHANGED <<windowVars, managerVars, ret>>

\* App._correct_answer, lines 372-374 (left button "Correct").
CorrectAnswer ==
  /\ Pressable(left_b, "_correct_answer")
  /\ Len(results) < MaxLog
  /\ results' = Write(results, questions[active_question], "Correct")
  /\ NextQuestionBody(Append(trace.events, "_correct_answer"))
  /\ UNCHANGED questions
  /\ UNCHANGED <<windowVars, managerVars, ret>>

\* App._incorrect_answer, lines 377-379 (right button "Incorrect").
IncorrectAnswer ==
  /\ Pressable(right_b, "_incorrect_answer")
  /\ Len(results) < MaxLog
  /\ results' = Write(results, questions[active_question], "Incorrect")
  /\ NextQuestionBody(Append(trace.events, "_incorrect_answer"))
  /\ UNCHANGED questions
  /\ UNCHANGED <<windowVars, managerVars, ret>>

\* App._next_question as the command of the right button "Continue".
Continue ==
  /\ Pressable(right_b, "_next_question")
  /\ UNCHANGED <<questions, results>>
  /\ NextQuestionBody(Append(trace.events, "_next_question"))
  /\ UNCHANGED <<windowVars, managerVars, ret>>

\* The first _next_question, called by App.__init__ at line 255.
FirstQuestion ==
  /\ active_question = 0
  /\ UNCHANGED <<questions, results>>
  /\ NextQuestionBody(<<>>)
  /\ UNCHANGED <<windowVars, managerVars, ret>>

\* ------------------------------------------------------ specifications
InitLive ==
  /\ frame = None
  /\ alive = {}
  /\ created = 0
  /\ lists = [i \in {0} \cup Managers |-> <<>>]
  /\ mgr = [m \in Managers |-> NoManager]
  /\ ret = NoRet

\* The draft is commented out: in the live program none of its state exists.
InitNoDraft ==
  /\ questions = <<>>
  /\ active_question = 0
  /\ left_b = NoButton
  /\ right_b = NoButton
  /\ category_l = ""
  /\ value_l = <<>>
  /\ question_l = ""
  /\ results = <<>>
  /\ trace = [events |-> <<>>, start |-> 0]
  /\ cycle = [events |-> <<>>, rows |-> 0]
  /\ refill = <<>>

\* The draft inside App.__init__ after lines 246-254: questions loaded, the
\* performance file opened for append, active_question None, and the
\* widgets created with empty labels and buttons without a command.
InitDraftApp ==
  /\ questions \in SampleQuestions
  /\ results \in SampleLogs
  /\ active_question = 0
  /\ category_l = ""
  /\ value_l = <<>>
  /\ question_l = ""
  /\ refill = <<>>
  /\ left_b = NoButton
  /\ right_b = NoButton
  /\ trace = [events |-> <<>>, start |-> Len(results)]
  /\ cycle = [events |-> <<>>, rows |-> 0]

Init == InitLive /\ InitNoDraft
InitDraft == InitLive /\ InitDraftApp

Next ==
  \/ \E pc \in PageClasses : ShowPage(pc)
  \/ \E pc \in PageClasses : PageShowPage(pc)
  \/ \E m \in Managers, d \in BOOLEAN, b \in SampleBanks, q \in {<<>>, <<Q1>>} :
       Construct(m, d, b, q)
  \/ \E m \in Managers, f \in Paths, cb \in BOOLEAN : Load(m, f, cb)
  \/ \E m \in Managers : RandomQuestion(m)
  \/ \E m \in Managers, ign \in BOOLEAN : RandomTag(m, ign)
  \/ \E files \in ConfigValues : LoadQuestions(files)

NextRows ==
  \/ \E m \in Managers, d \in BOOLEAN, b \in {<<>>, <<Q1>>}, q \in {<<>>, <<Q1>>} :
       Construct(m, d, b, q)
  \/ \E m \in Managers, rows \in SeqsUpTo(SampleRows, MaxRows), cb \in BOOLEAN :
       LoadFromRows(m, rows, cb)

NextDraft ==
  \/ FirstQuestion
  \/ Answer
  \/ SkipQuestion
  \/ CorrectAnswer
  \/ IncorrectAnswer
  \/ Continue

Spec == Init /\ [][Next]_vars
SpecRows == Init /\ [][NextRows]_vars
SpecDraft == InitDraft /\ [][NextDraft]_vars

\* ------------------------------------------------------------- claims
\* A row is invalid when it has fewer than 6 columns or one of its value
\* columns (row[3:6]) is not a number.
Invalid(row) ==
  \/ Len(row) < 6
  \/ \E i \in 4..6 : i <= Len(row) /\ ~IsFloat(row[i])
Valid(row) == ~Invalid(row)

\* The Question a valid row stands for: columns 1-3 as text, columns 4-6 as
\* numbers, every further column a tag.
QuestionOfRow(row) ==
  [identifer |-> Str(row[1]), question |-> Str(row[2]), answer |-> Str(row[3]),
   correct_value |-> Num(Float(row[4])), incorrect_value |-> Num(Float(row[5])),
   skip_value |-> Num(Float(row[6])),
   tags |-> List([i \in 1..(Len(row) - 6) |-> row[i + 6]])]
QuestionsOfRows(rows) == [i \in 1..Len(rows) |-> QuestionOfRow(rows[i])]

LoadRan == ret.op = "load" /\ ret.err # "FileNotFoundError"

\* C1: every invalid row met by load is passed to on_bad_line exactly once
\* and load does not raise for it when the callback is given; without a
\* callback load raises and calls nothing.
C1_BadRowReportedOnce ==
  LoadRan =>
    IF ret.cb
    THEN ret.calls = SelectSeq(ret.rows, Invalid) /\ ret.err = "none"
    ELSE /\ ret.calls = <<>>
         /\ (\E i \in 1..Len(ret.rows) : Invalid(ret.rows[i]))
              => ret.err \in {"IndexError", "ValueError"}

C3_ValidRowsAppended ==
  (LoadRan /\ \A i \in 1..Len(FileRows(ret.file)) : Valid(FileRows(ret.file)[i])) =>
    /\ ret.err = "none"
    /\ Bank(ret.m) = ret.before \o QuestionsOfRows(FileRows(ret.file))

\* C4: random_question and random_tag raise the empty-bank error (IndexError)
\* on an empty bank and otherwise return a loaded Question, respectively a
\* tag carried by a loaded Question.
TagsOf(bank) ==
  UNION {{bank[i].tags.l[j] : j \in 1..Len(bank[i].tags.l)} : i \in 1..Len(bank)}
C4_RandomMember ==
  /\ ret.op = "random_question" =>
       IF ret.before = <<>> THEN ret.err = "IndexError"
       ELSE /\ ret.err = "none"
            /\ \E i \in 1..Len(ret.before) : ret.val = <<ret.before[i]>>
  /\ ret.op = "random_tag" =>
       IF ret.before = <<>> THEN ret.err = "IndexError"
       ELSE /\ ret.err = "none"
            /\ \E t \in TagsOf(ret.before) : ret.tag = <<t>>

\* C5: the draws made since the queue was last empty are a prefix of the
\* questions of one category in non-decreasing value order, ties in load
\* order, so no question repeats before the category is exhausted.
Before(i, j) ==
  \/ questions[i].value < questions[j].value
  \/ questions[i].value = questions[j].value /\ i < j
CategoryOrder(c) ==
  LET members == {i \in 1..Len(questions) : questions[i].category = c}
  IN  [k \in 1..Cardinality(members) |->
         CHOOSE i \in members :
           Cardinality({j \in members : Before(j, i)}) = k - 1]
C5_DrawsFollowQueue ==
  refill # <<>> =>
    LET order == CategoryOrder(questions[refill[1]].category)
    IN  /\ Len(refill) <= Len(order)
        /\ refill = SubSeq(order, 1, Len(refill))

\* C6: each of the three outcome handlers appends exactly one row, the active
\* question's fields followed by its label, and no step changes, removes or
\* reorders a row written earlier.
Recorded(label) == results' = Append(results, RowOf(questions[active_question], label))
C6_AppendOnly ==
  [][ /\ SkipQuestion => Recorded("Skip")
      /\ CorrectAnswer => Recorded("Correct")
      /\ IncorrectAnswer => Recorded("Incorrect")
      /\ ~(SkipQuestion \/ CorrectAnswer \/ IncorrectAnswer) => results' = results
    ]_vars
C6_Witness ==
  /\ Len(results) = 3
  /\ results[1] = OldRow
  /\ results[2][6] = "Skip"
  /\ results[3][6] = "Incorrect"

\* C7: every question that has been replaced went through Buzz In then
\* Correct or Incorrect, or through Skip then Continue, with exactly one row
\* logged; the question on display has at most one row logged, and none
\* unless it was skipped.
FinishedCycles ==
  { [events |-> <<"_answer", "_correct_answer">>, rows |-> 1],
    [events |-> <<"_answer", "_incorrect_answer">>, rows |-> 1],
    [events |-> <<"_skip_question", "_next_question">>, rows |-> 1] }
OpenCycles ==
  { [events |-> <<>>, rows |-> 0],
    [events |-> <<"_answer">>, rows |-> 0],
    [events |-> <<"_skip_question">>, rows |-> 1] }
C7_OneOutcomePerQuestion ==
  /\ cycle.events # <<>> => cycle \in FinishedCycles
  /\ [events |-> trace.events, rows |-> Len(results) - trace.start] \in OpenCycles
C7_Witness ==
  /\ cycle.events = <<"_skip_question", "_next_question">>
  /\ trace.events = <<"_answer">>
  /\ Len(results) = MaxLog

\* C8: _load_questions passes every configured path that is a file to
\* QuestionManager.load exactly once, in list order, whatever missing paths
\* stand before or after it.
C8_ReadablePathsLoaded ==
  ret.op = "_load_questions" => ret.loaded = SelectSeq(Split(ret.file), IsFile)

\* C9: at most one page frame is alive, the frame handle is that frame, and
\* after a switch requested through either show_page the handle is a page of
\* the requested class.
C9_SinglePage ==
  /\ Cardinality(alive) <= 1
  /\ frame # None => alive = {frame.id}
  /\ ret.op \in {"show_page", "Page.show_page"} =>
       ret.err = "none" /\ frame.cls = ret.cls

====
